---- MODULE Spec2Model ----
(***************************************************************************)
(* Hybrid end-to-end encryption of the beteseb chat application:           *)
(* EncryptionService (key store, encryptMessage, decryptMessage),          *)
(* ChatService (message store, send, load, push delivery).                 *)
(*                                                                         *)
(* Every JavaScript string is a sequence of UTF-16 code units, every       *)
(* buffer a sequence of bytes.  null is the one-element sequence <<-1>>,   *)
(* which no string equals.                                                 *)
(***************************************************************************)
EXTENDS Integers, Sequences, FiniteSets, TLC

VARIABLES
    privSlot,   \* SecureStore item 'user_private_key' (a string, or Null)
    pubSlot,    \* SecureStore item 'user_public_key'  (a string, or Null)
    rng,        \* number of values the platform CSPRNG has produced
    gcmLog,     \* AES-GCM encryptions performed: <<key, iv, data>>
    oaepLog,    \* RSA-OAEP encryptions performed: <<modulus, data>>
    sealed,     \* history: the encryptMessage calls that returned
    ret,        \* the last call of a service and what it returned
    idem,       \* history: the last initializeEncryption return, until a clearKeys
    cleared,    \* history: clearKeys completed and nothing was stored since
    pairs,      \* history: the moduli of the key pairs generated
    input,      \* the plaintext under test
    messages,   \* the rows of the remote table 'messages', in created_at order
    pushQ,      \* inserted rows the realtime channel has yet to deliver
    foreign,    \* history: number of rows written by other clients of the store
    userIdItem, \* AsyncStorage item '@user_id' (a user id, or NoUser)
    currentUserId, \* CURRENT_USER_ID of the ChatContext module
    users,      \* the rows of the remote table 'users' written from this device
    ctx,        \* the mounted ChatProvider: its state and the channel it created
    pending,    \* push callbacks awaiting decryptMessage: the messages they will report
    owner,      \* history: the user whose flow generated each key pair
    peerKeys,   \* the public key of each user as the contact's client cached it
    inflight    \* the EncryptionService calls in flight, each with its position

encVars == <<privSlot, pubSlot, rng, gcmLog, oaepLog, sealed, ret, idem, cleared, pairs, input>>

chatVars == <<messages, pushQ, foreign>>

appVars == <<userIdItem, currentUserId, users, ctx, pending, owner>>

concVars == <<peerKeys, inflight>>

vars == <<encVars, chatVars, appVars, concVars>>

----------------------------------------------------------------------------
(* Bounds of the model.                                                    *)

MaxLen == 1        \* code units of a plaintext
MaxRand == 5       \* values drawn from the CSPRNG in one behaviour
MaxSealed == 2     \* encryptMessage results kept
MaxMsgs == 2       \* rows of the table 'messages'
MaxForeign == 1    \* rows written by other clients of the store
MaxBytes == 3      \* bytes of a buffer given to the base64 codec
MaxKeyPairs == 2   \* key pairs generated by the flows of the application
MaxCalls == 2      \* EncryptionService calls in flight at once

----------------------------------------------------------------------------
(* Strings.                                                                *)

Null == <<-1>>

\* 'A', the euro sign, a high and a low surrogate, U+FEFF
Units == {65, 8364, 55357, 56832, 65279}

RECURSIVE StringsUpTo(_)
StringsUpTo(n) ==
    IF n = 0 THEN {<<>>}
    ELSE LET shorter == StringsUpTo(n - 1)
         IN  shorter \cup {Append(s, u) : s \in {t \in shorter : Len(t) = n - 1}, u \in Units}

Plaintexts == StringsUpTo(MaxLen)

IsHigh(u) == u >= 55296 /\ u <= 56319
IsLow(u) == u >= 56320 /\ u <= 57343

\* The conversion of a string to scalar values that TextEncoder.encode starts
\* with: a surrogate pair is one scalar value, a lone surrogate is U+FFFD.
RECURSIVE ToScalars(_)
ToScalars(s) ==
    IF s = <<>> THEN <<>>
    ELSE IF IsHigh(s[1]) /\ Len(s) >= 2 /\ IsLow(s[2])
         THEN <<65536 + (s[1] - 55296) * 1024 + (s[2] - 56320)>>
              \o ToScalars(SubSeq(s, 3, Len(s)))
    ELSE IF IsHigh(s[1]) \/ IsLow(s[1])
         THEN <<65533>> \o ToScalars(Tail(s))
    ELSE <<s[1]>> \o ToScalars(Tail(s))

Utf8Of(c) ==
    IF c < 128 THEN <<c>>
    ELSE IF c < 2048 THEN <<192 + (c \div 64), 128 + (c % 64)>>
    ELSE IF c < 65536
         THEN <<224 + (c \div 4096), 128 + ((c \div 64) % 64), 128 + (c % 64)>>
    ELSE <<240 + (c \div 262144), 128 + ((c \div 4096) % 64),
           128 + ((c \div 64) % 64), 128 + (c % 64)>>

RECURSIVE Utf8Bytes(_)
Utf8Bytes(cs) == IF cs = <<>> THEN <<>> ELSE Utf8Of(cs[1]) \o Utf8Bytes(Tail(cs))

\* new TextEncoder().encode(message)
TextEncode(s) == Utf8Bytes(ToScalars(s))

IsCont(b) == b >= 128 /\ b <= 191

\* The UTF-8 decoder of TextDecoder (fatal: false): a malformed byte is U+FFFD.
RECURSIVE Utf8Scalars(_)
Utf8Scalars(b) ==
    IF b = <<>> THEN <<>>
    ELSE IF b[1] < 128 THEN <<b[1]>> \o Utf8Scalars(Tail(b))
    ELSE IF b[1] >= 194 /\ b[1] <= 223 /\ Len(b) >= 2 /\ IsCont(b[2])
         THEN <<(b[1] - 192) * 64 + (b[2] - 128)>> \o Utf8Scalars(SubSeq(b, 3, Len(b)))
    ELSE IF b[1] >= 224 /\ b[1] <= 239 /\ Len(b) >= 3 /\ IsCont(b[2]) /\ IsCont(b[3])
            /\ (b[1] = 224 => b[2] >= 160) /\ (b[1] = 237 => b[2] <= 159)
         THEN <<(b[1] - 224) * 4096 + (b[2] - 128) * 64 + (b[3] - 128)>>
              \o Utf8Scalars(SubSeq(b, 4, Len(b)))
    ELSE IF b[1] >= 240 /\ b[1] <= 244 /\ Len(b) >= 4
            /\ IsCont(b[2]) /\ IsCont(b[3]) /\ IsCont(b[4])
            /\ (b[1] = 240 => b[2] >= 144) /\ (b[1] = 244 => b[2] <= 143)
         THEN <<(b[1] - 240) * 262144 + (b[2] - 128) * 4096
                + (b[3] - 128) * 64 + (b[4] - 128)>>
              \o Utf8Scalars(SubSeq(b, 5, Len(b)))
    ELSE <<65533>> \o Utf8Scalars(Tail(b))

RECURSIVE FromScalars(_)
FromScalars(cs) ==
    IF cs = <<>> THEN <<>>
    ELSE IF cs[1] >= 65536
         THEN <<55296 + ((cs[1] - 65536) \div 1024), 56320 + ((cs[1] - 65536) % 1024)>>
              \o FromScalars(Tail(cs))
    ELSE <<cs[1]>> \o FromScalars(Tail(cs))

\* new TextDecoder().decode(buffer): ignoreBOM is false, so one leading U+FEFF of
\* the decoded text is dropped.
TextDecode(b) ==
    LET cs == Utf8Scalars(b)
    IN  FromScalars(IF cs # <<>> /\ cs[1] = 65279 THEN Tail(cs) ELSE cs)

----------------------------------------------------------------------------
(* Base64: btoa and atob.                                                  *)

\* The alphabet of base64url, which ends in '-' and '_'.
B64CharUrl(i) ==
    IF i < 26 THEN 65 + i
    ELSE IF i < 52 THEN 97 + (i - 26)
    ELSE IF i < 62 THEN 48 + (i - 52)
    ELSE IF i = 62 THEN 45 ELSE 95

B64Char(i) ==
    IF i < 26 THEN 65 + i
    ELSE IF i < 52 THEN 97 + (i - 26)
    ELSE IF i < 62 THEN 48 + (i - 52)
    ELSE IF i = 62 THEN 43 ELSE 47

IsB64Char(c) ==
    \/ c >= 65 /\ c <= 90
    \/ c >= 97 /\ c <= 122
    \/ c >= 48 /\ c <= 57
    \/ c = 43
    \/ c = 47

B64Index(c) ==
    IF c >= 65 /\ c <= 90 THEN c - 65
    ELSE IF c >= 97 /\ c <= 122 THEN c - 97 + 26
    ELSE IF c >= 48 /\ c <= 57 THEN c - 48 + 52
    ELSE IF c = 43 THEN 62 ELSE 63

Pow64(k) == IF k = 0 THEN 1 ELSE IF k = 1 THEN 64 ELSE IF k = 2 THEN 4096 ELSE 262144

ByteAt(b, i) == IF i <= Len(b) THEN b[i] ELSE 0

\* btoa(binary), binary the string of the bytes' characters
Btoa(b) ==
    LET n == Len(b)
        groups == (n + 2) \div 3
    IN  [j \in 1..(4 * groups) |->
            LET g == (j - 1) \div 4
                pos == (j - 1) % 4
                v == ByteAt(b, 3 * g + 1) * 65536 + ByteAt(b, 3 * g + 2) * 256
                     + ByteAt(b, 3 * g + 3)
            IN  IF (pos = 2 /\ 3 * g + 2 > n) \/ (pos = 3 /\ 3 * g + 3 > n)
                THEN 61
                ELSE B64Char((v \div Pow64(3 - pos)) % 64)]

IsAsciiWhitespace(c) == c \in {9, 10, 12, 13, 32}

NotWhitespace(c) == ~IsAsciiWhitespace(c)

\* atob(data): the forgiving base64 decoding.  ASCII whitespace is removed, one
\* or two trailing '=' of a text of 4k characters are removed, a remainder of one
\* character or a character outside the alphabet is an InvalidCharacterError, and
\* the bits left over after the last whole byte are discarded.
Atob(data) ==
    LET s1 == SelectSeq(data, NotWhitespace)
        n1 == Len(s1)
        s2 == IF n1 > 0 /\ n1 % 4 = 0 /\ s1[n1] = 61
              THEN IF s1[n1 - 1] = 61 THEN SubSeq(s1, 1, n1 - 2)
                   ELSE SubSeq(s1, 1, n1 - 1)
              ELSE s1
        n == Len(s2)
        nbytes == (n \div 4) * 3 + (IF n % 4 = 0 THEN 0 ELSE (n % 4) - 1)
        Sextet(i) == IF i <= n THEN B64Index(s2[i]) ELSE 0
    IN  IF n % 4 = 1 \/ \E i \in 1..n : ~IsB64Char(s2[i])
        THEN [ok |-> FALSE, bytes |-> <<>>]
        ELSE [ok |-> TRUE,
              bytes |-> [k \in 1..nbytes |->
                  LET g == (k - 1) \div 3
                      pos == (k - 1) % 3
                      v == Sextet(4 * g + 1) * 262144 + Sextet(4 * g + 2) * 4096
                           + Sextet(4 * g + 3) * 64 + Sextet(4 * g + 4)
                  IN  (v \div (IF pos = 0 THEN 65536 ELSE IF pos = 1 THEN 256 ELSE 1))
                      % 256]]

\* String.fromCharCode of each byte, then btoa
arrayBufferToBase64(buffer) == Btoa(buffer)

\* atob, then charCodeAt of each character
base64ToArrayBuffer(base64) == Atob(base64)

----------------------------------------------------------------------------
(* Keys and the platform's cryptography (crypto.subtle), as an ideal        *)
(* cipher: a ciphertext opens only if an encryption under the same key      *)
(* (and nonce) produced it.  The two logs hold the encryptions performed.   *)
(*                                                                         *)
(* The sizes are in bytes.  The RSA-OAEP ciphertext, 256 bytes for the    *)
(* 2048-bit modulus, is modelled shorter, with the same remainder modulo 3,*)
(* which is what base64 sees of a length.                                  *)

WrappedKeyBytes == 4   \* stands for 256: modulusLength 2048
AesKeyBytes == 32      \* length: 256
IvBytes == 12          \* new Uint8Array(12)
TagBytes == 16         \* the tag AES-GCM appends, 128 bits by default

\* The k-th value of the CSPRNG as len bytes.
RandomBytes(len, k) == [i \in 1..len |-> IF i = 1 THEN k ELSE 0]

\* JSON.stringify of the exported JWK of the key pair with modulus n: "{n<n>}"
\* for the public key, "{d<n>}" for the private one.
PublicKeyString(n) == <<123, 110, n, 125>>
PrivateKeyString(n) == <<123, 100, n, 125>>

\* JSON.parse of a stored key string; anything else is a SyntaxError.
IsJwkString(s) == Len(s) = 4 /\ s[1] = 123 /\ s[4] = 125 /\ s[2] \in {100, 110}
JwkIsPrivate(s) == s[2] = 100
JwkModulus(s) == s[3]

\* crypto.subtle.encrypt({name: 'AES-GCM', iv}, key, data): the ciphertext of the
\* e-th encryption, the data's length plus the tag.
GcmCiphertext(e, data) == RandomBytes(Len(data) + TagBytes, e)

GcmIndex(key, iv, data) ==
    IF \E e \in 1..Len(gcmLog) : gcmLog[e] = <<key, iv, data>>
    THEN CHOOSE e \in 1..Len(gcmLog) : gcmLog[e] = <<key, iv, data>>
    ELSE Len(gcmLog) + 1

GcmLogAfter(key, iv, data) ==
    IF GcmIndex(key, iv, data) <= Len(gcmLog) THEN gcmLog
    ELSE Append(gcmLog, <<key, iv, data>>)

\* crypto.subtle.decrypt({name: 'AES-GCM', iv}, key, ct): the data, or an
\* OperationError when the tag does not verify.
GcmDecrypt(key, iv, ct) ==
    LET hit == {e \in 1..Len(gcmLog) :
                    /\ gcmLog[e][1] = key
                    /\ gcmLog[e][2] = iv
                    /\ ct = GcmCiphertext(e, gcmLog[e][3])}
    IN  IF hit = {} THEN [ok |-> FALSE, bytes |-> <<>>]
        ELSE [ok |-> TRUE, bytes |-> gcmLog[CHOOSE e \in hit : TRUE][3]]

\* crypto.subtle.encrypt({name: 'RSA-OAEP'}, publicKey, data): OAEP pads with
\* fresh randomness, so every encryption is a new ciphertext of the modulus' size.
OaepCiphertext(e) == RandomBytes(WrappedKeyBytes, e)

\* A padding check that every private key passes.
OaepKeyOpensAny(n, m) == TRUE

\* The private key of modulus n opens what was encrypted to modulus m.
OaepKeyOpens(n, m) == n = m

\* crypto.subtle.decrypt({name: 'RSA-OAEP'}, privateKey, ct)
OaepDecrypt(n, ct) ==
    LET hit == {e \in 1..Len(oaepLog) :
                    OaepKeyOpens(n, oaepLog[e][1]) /\ ct = OaepCiphertext(e)}
    IN  IF hit = {} THEN [ok |-> FALSE, bytes |-> <<>>]
        ELSE [ok |-> TRUE, bytes |-> oaepLog[CHOOSE e \in hit : TRUE][2]]

----------------------------------------------------------------------------
(* EncryptionService.                                                      *)

NoEnvelope == [encryptedContent |-> <<>>, encryptedKey |-> <<>>, iv |-> <<>>]

\* What encryptMessage returns or throws, and the CSPRNG and the logs after it.
EncResult(ok, err, env, r, g, o) ==
    [ok |-> ok, err |-> err, env |-> env, rng |-> r, gcmLog |-> g, oaepLog |-> o]

\* crypto.subtle.generateKey for AES-GCM: a new random key
GenerateAesKey == RandomBytes(AesKeyBytes, rng + 1)

ReusedIv == RandomBytes(IvBytes, 0)

\* crypto.getRandomValues(new Uint8Array(12))
GetRandomIv == RandomBytes(IvBytes, rng + 2)

encryptMessage(message, recipientPublicKey) ==
    LET aesKey == GenerateAesKey
        iv == GetRandomIv
        messageData == TextEncode(message)
        e == GcmIndex(aesKey, iv, messageData)
        g == GcmLogAfter(aesKey, iv, messageData)
        encryptedMessageBuffer == GcmCiphertext(e, messageData)
        w == Len(oaepLog) + 1
    IN  IF ~IsJwkString(recipientPublicKey)
        THEN EncResult(FALSE, "SyntaxError", NoEnvelope, rng + 2, g, oaepLog)
        ELSE IF JwkIsPrivate(recipientPublicKey)
        THEN EncResult(FALSE, "SyntaxError", NoEnvelope, rng + 2, g, oaepLog)
        ELSE EncResult(TRUE, "",
                 [encryptedContent |-> arrayBufferToBase64(encryptedMessageBuffer),
                  encryptedKey |-> arrayBufferToBase64(OaepCiphertext(w)),
                  iv |-> arrayBufferToBase64(iv)],
                 rng + 2, g,
                 Append(oaepLog, <<JwkModulus(recipientPublicKey), aesKey>>))

DecResult(ok, err, text) == [ok |-> ok, err |-> err, text |-> text]

Falsy(s) == s = Null \/ s = <<>>

\* decryptMessage with the private key the store holds.
decryptMessage(encryptedMessage) ==
    LET privateKeyJwkString == privSlot
        encryptedKeyBuffer == base64ToArrayBuffer(encryptedMessage.encryptedKey)
        aesKeyData == OaepDecrypt(JwkModulus(privateKeyJwkString), encryptedKeyBuffer.bytes)
        encryptedContentBuffer == base64ToArrayBuffer(encryptedMessage.encryptedContent)
        iv == base64ToArrayBuffer(encryptedMessage.iv)
        decryptedBuffer == GcmDecrypt(aesKeyData.bytes, iv.bytes, encryptedContentBuffer.bytes)
    IN  IF Falsy(privateKeyJwkString)
        THEN DecResult(FALSE, "Private key not found", <<>>)
        ELSE IF ~IsJwkString(privateKeyJwkString)
        THEN DecResult(FALSE, "SyntaxError", <<>>)
        ELSE IF ~JwkIsPrivate(privateKeyJwkString)
        THEN DecResult(FALSE, "SyntaxError", <<>>)
        ELSE IF ~encryptedKeyBuffer.ok
        THEN DecResult(FALSE, "InvalidCharacterError", <<>>)
        ELSE IF ~aesKeyData.ok
        THEN DecResult(FALSE, "OperationError", <<>>)
        ELSE IF Len(aesKeyData.bytes) # AesKeyBytes
        THEN DecResult(FALSE, "DataError", <<>>)
        ELSE IF ~encryptedContentBuffer.ok \/ ~iv.ok
        THEN DecResult(FALSE, "InvalidCharacterError", <<>>)
        ELSE IF ~decryptedBuffer.ok
        THEN DecResult(FALSE, "OperationError", <<>>)
        ELSE DecResult(TRUE, "", TextDecode(decryptedBuffer.bytes))

HasKeysNever == FALSE

\* hasKeys: the private-key item is not null
hasKeys == privSlot # Null

\* generateKeyPair: the two exported keys of a new pair
\* A key generation whose result names the two keys the wrong way round.
generateKeyPairSwapped ==
    [publicKey |-> PrivateKeyString(rng + 1), privateKey |-> PublicKeyString(rng + 1)]

generateKeyPair ==
    [publicKey |-> PublicKeyString(rng + 1), privateKey |-> PrivateKeyString(rng + 1)]

InitFailures == {"none", "generateKeyPair", "storePrivateKey", "storePublicKey"}

InitResult(ok, err, value, priv, pub, r) ==
    [ok |-> ok, err |-> err, value |-> value, priv |-> priv, pub |-> pub, rng |-> r]

\* An initializeEncryption that catches a failed key generation and returns
\* an empty key.
initializeEncryptionSwallows(fail) ==
    IF hasKeys /\ ~Falsy(pubSlot)
    THEN InitResult(TRUE, "", pubSlot, privSlot, pubSlot, rng)
    ELSE IF fail = "generateKeyPair"
    THEN InitResult(TRUE, "", <<>>, privSlot, <<>>, rng)
    ELSE IF fail = "storePrivateKey"
    THEN InitResult(FALSE, fail, Null, privSlot, pubSlot, rng + 1)
    ELSE IF fail = "storePublicKey"
    THEN InitResult(FALSE, fail, Null, PrivateKeyString(rng + 1), pubSlot, rng + 1)
    ELSE InitResult(TRUE, "", PublicKeyString(rng + 1),
                    PrivateKeyString(rng + 1), PublicKeyString(rng + 1), rng + 1)

\* initializeEncryption; fail names the step of it that throws, if one does.
\* The result carries the two slots and the CSPRNG as the call leaves them.
initializeEncryption(fail) ==
    IF hasKeys /\ ~Falsy(pubSlot)
    THEN InitResult(TRUE, "", pubSlot, privSlot, pubSlot, rng)
    ELSE IF fail = "generateKeyPair"
    THEN InitResult(FALSE, fail, Null, privSlot, pubSlot, rng)
    ELSE IF fail = "storePrivateKey"
    THEN InitResult(FALSE, fail, Null, privSlot, pubSlot, rng + 1)
    ELSE IF fail = "storePublicKey"
    THEN InitResult(FALSE, fail, Null, generateKeyPair.privateKey, pubSlot, rng + 1)
    ELSE InitResult(TRUE, "", generateKeyPair.publicKey,
                    generateKeyPair.privateKey, generateKeyPair.publicKey, rng + 1)

ClearFailures == {"none", "deletePrivate", "deletePublic"}

ClearPublicOnly(fail) ==
    IF fail = "none" THEN [ok |-> TRUE, priv |-> privSlot, pub |-> Null]
    ELSE [ok |-> FALSE, priv |-> privSlot, pub |-> pubSlot]

\* clearKeys: the private item is deleted, then the public one.
clearKeys(fail) ==
    IF fail = "deletePrivate" THEN [ok |-> FALSE, priv |-> privSlot, pub |-> pubSlot]
    ELSE IF fail = "deletePublic" THEN [ok |-> FALSE, priv |-> Null, pub |-> pubSlot]
    ELSE [ok |-> TRUE, priv |-> Null, pub |-> Null]

----------------------------------------------------------------------------
(* The calls of EncryptionService as actions.                              *)

NoIdem == [set |-> FALSE, pub |-> Null, priv |-> Null]

NoRet == [op |-> "none", ok |-> TRUE]

InitializeEncryptionMay(fails) ==
    \E fail \in fails :
        LET r == initializeEncryption(fail)
        IN  /\ (hasKeys /\ ~Falsy(pubSlot)) => fail = "none"
            /\ r.rng <= MaxRand
            /\ privSlot' = r.priv
            /\ pubSlot' = r.pub
            /\ rng' = r.rng
            /\ pairs' = IF r.rng # rng THEN pairs \cup {r.rng} ELSE pairs
            /\ ret' = [op |-> "initializeEncryption", ok |-> r.ok, err |-> r.err,
                       value |-> r.value, privBefore |-> privSlot,
                       pubBefore |-> pubSlot, prev |-> idem, thrower |-> fail]
            /\ idem' = IF r.ok THEN [set |-> TRUE, pub |-> r.value, priv |-> r.priv]
                       ELSE idem
            /\ cleared' = (cleared /\ r.priv = privSlot /\ r.pub = pubSlot)
            /\ UNCHANGED <<gcmLog, oaepLog, sealed, input, chatVars, appVars, concVars>>

ClearKeysMay(fails) ==
    \E fail \in fails :
        LET r == clearKeys(fail)
        IN  /\ privSlot' = r.priv
            /\ pubSlot' = r.pub
            /\ ret' = [op |-> "clearKeys", ok |-> r.ok, err |-> fail]
            /\ idem' = NoIdem
            /\ cleared' = (r.ok \/ cleared)
            /\ UNCHANGED <<rng, gcmLog, oaepLog, sealed, pairs, input, chatVars, appVars,
                           concVars>>

\* initializeEncryption, any step of which may throw
InitializeEncryption == InitializeEncryptionMay(InitFailures)

\* clearKeys, any step of which may throw
ClearKeys == ClearKeysMay(ClearFailures)

\* The two calls on a device whose SecureStore and crypto do not fail
KeysInitialized == InitializeEncryptionMay({"none"})

KeysCleared == ClearKeysMay({"none"})

\* The recipient keys a caller passes: the published key of a generated pair, a
\* private key published by mistake, or a text that is no key.
RecipientKeys ==
    {PublicKeyString(n) : n \in pairs} \cup {PrivateKeyString(n) : n \in pairs}
        \cup {<<65>>}

\* An encryptMessage that keeps the recipient's key in the public-key item.
EncryptMessageCachingKey ==
    \E k \in RecipientKeys :
        LET r == encryptMessage(input, k)
        IN  /\ r.rng <= MaxRand
            /\ Len(sealed) < MaxSealed
            /\ rng' = r.rng
            /\ gcmLog' = r.gcmLog
            /\ oaepLog' = r.oaepLog
            /\ pubSlot' = k
            /\ sealed' = IF r.ok
                         THEN Append(sealed, [plain |-> input, pub |-> k, env |-> r.env,
                                              gcm |-> Len(r.gcmLog)])
                         ELSE sealed
            /\ ret' = [op |-> "encryptMessage", ok |-> r.ok, err |-> r.err]
            /\ UNCHANGED <<privSlot, idem, cleared, pairs, input, chatVars, appVars,
                           concVars>>

EncryptMessage ==
    \E k \in RecipientKeys :
        LET r == encryptMessage(input, k)
        IN  /\ r.rng <= MaxRand
            /\ Len(sealed) < MaxSealed
            /\ rng' = r.rng
            /\ gcmLog' = r.gcmLog
            /\ oaepLog' = r.oaepLog
            /\ sealed' = IF r.ok
                         THEN Append(sealed, [plain |-> input, pub |-> k, env |-> r.env,
                                              gcm |-> Len(r.gcmLog)])
                         ELSE sealed
            /\ ret' = [op |-> "encryptMessage", ok |-> r.ok, err |-> r.err]
            /\ UNCHANGED <<privSlot, pubSlot, idem, cleared, pairs, input, chatVars, appVars,
                    concVars>>

DecryptMessage ==
    \E i \in 1..Len(sealed) :
        LET r == decryptMessage(sealed[i].env)
        IN  /\ ret' = [op |-> "decryptMessage", ok |-> r.ok, err |-> r.err,
                       text |-> r.text, src |-> i, field |-> "", kind |-> "",
                       sameBytes |-> TRUE, key |-> privSlot]
            /\ UNCHANGED <<privSlot, pubSlot, rng, gcmLog, oaepLog, sealed, idem,
                           cleared, pairs, input, chatVars, appVars, concVars>>

\* A change of one field of a stored or transmitted envelope.
TamperKinds ==
    {"flipFirst", "flipLast", "appendSpace", "stripPadding", "truncate",
     "invalidChar", "empty", "swap"}

NotPad(c) == c # 61

Tampered(s, kind, other) ==
    LET q == Len(SelectSeq(s, NotPad))
    IN  IF kind = "flipFirst"
        THEN [s EXCEPT ![1] = B64Char((B64Index(s[1]) + 32) % 64)]
        ELSE IF kind = "flipLast"
        THEN [s EXCEPT ![q] = B64Char(IF B64Index(s[q]) % 2 = 0
                                       THEN B64Index(s[q]) + 1
                                       ELSE B64Index(s[q]) - 1)]
        ELSE IF kind = "appendSpace" THEN Append(s, 32)
        ELSE IF kind = "stripPadding" THEN SelectSeq(s, NotPad)
        ELSE IF kind = "truncate" THEN SubSeq(s, 1, Len(s) - 4)
        ELSE IF kind = "invalidChar" THEN [s EXCEPT ![1] = 42]
        ELSE IF kind = "empty" THEN <<>>
        ELSE other

EnvelopeFields == {"encryptedContent", "encryptedKey", "iv"}

\* decryptMessage on an envelope that differs from a sealed one in one field.
DecryptTampered ==
    \E i \in 1..Len(sealed), j \in 1..Len(sealed), f \in EnvelopeFields, kind \in TamperKinds :
        LET env == sealed[i].env
            changed == [env EXCEPT ![f] = Tampered(env[f], kind, sealed[j].env[f])]
            r == decryptMessage(changed)
        IN  /\ changed[f] # env[f]
            /\ kind # "swap" => j = i
            /\ ret' = [op |-> "decryptMessage", ok |-> r.ok, err |-> r.err,
                       text |-> r.text, src |-> i, field |-> f, kind |-> kind,
                       sameBytes |-> (Atob(changed[f]) = Atob(env[f])),
                       key |-> privSlot]
            /\ UNCHANGED <<privSlot, pubSlot, rng, gcmLog, oaepLog, sealed, idem,
                           cleared, pairs, input, chatVars, appVars, concVars>>

\* No user: the null of AsyncStorage.getItem, of CURRENT_USER_ID and of currentUser.
NoUser == "none"

\* The users who sign up or log in on this device
Identities == {"u1", "u2"}

NoRow == [exists |-> FALSE, publicKey |-> Null]

\* The state of a ChatProvider before it is mounted: the initial values of its
\* useState hooks.  channel is the user the realtime channel filters on.
Unmounted ==
    [currentUser |-> NoUser, publicKey |-> Null, contacts |-> <<>>,
     messages |-> <<>>, conversations |-> <<>>, loading |-> TRUE,
     channel |-> NoUser, subscription |-> NoUser, phase |-> "unmounted"]

Fresh ==
    /\ userIdItem = NoUser
    /\ currentUserId = NoUser
    /\ users = [u \in Identities |-> NoRow]
    /\ ctx = Unmounted
    /\ pending = {}
    /\ owner = {}
    /\ peerKeys = [u \in Identities |-> Null]
    /\ inflight = {}
    /\ privSlot = Null
    /\ pubSlot = Null
    /\ rng = 0
    /\ gcmLog = <<>>
    /\ oaepLog = <<>>
    /\ sealed = <<>>
    /\ ret = NoRet
    /\ idem = NoIdem
    /\ cleared = FALSE
    /\ pairs = {}
    /\ messages = <<>>
    /\ pushQ = <<>>
    /\ foreign = 0

Init == Fresh /\ input \in Plaintexts

\* The EncryptionService of one device.
Next ==
    \/ InitializeEncryption
    \/ ClearKeys
    \/ EncryptMessage
    \/ DecryptMessage

Spec == Init /\ [][Next]_vars

\* The EncryptionService of one device, reading envelopes that were changed on
\* the way.
NextTamper ==
    \/ InitializeEncryption
    \/ EncryptMessage
    \/ DecryptTampered

SpecTamper == Init /\ [][NextTamper]_vars

----------------------------------------------------------------------------
(* Properties of EncryptionService.                                        *)

\* The private key string of the pair whose public key string is pub.
MatchingPrivateKey(pub) == PrivateKeyString(JwkModulus(pub))

\* The last call was decryptMessage on a sealed envelope as it was returned,
\* with the private key of the sealing pair in the store.
OpenedWithMatchingKey ==
    /\ ret.op = "decryptMessage"
    /\ ret.field = ""
    /\ ret.key = MatchingPrivateKey(sealed[ret.src].pub)

\* C1: decryptMessage of encryptMessage(p, pub), with the private key of pub's
\* pair stored, returns exactly p, for every plaintext p.
C1_RoundTrip ==
    OpenedWithMatchingKey => ret.ok /\ ret.text = sealed[ret.src].plain

\* C3: an initializeEncryption call that returns after an earlier one returned,
\* with no clearKeys in between, returns the public key the earlier call returned
\* and leaves in the store the private key the earlier call left there.
C3_InitializeTwice ==
    (ret.op = "initializeEncryption" /\ ret.ok /\ ret.prev.set)
        => (ret.value = ret.prev.pub /\ privSlot = ret.prev.priv)

C3_Witness ==
    /\ ret.op = "initializeEncryption"
    /\ ret.ok
    /\ ret.prev.set
    /\ privSlot # Null

\* C4: whenever a private key is stored, whatever the public-key item holds,
\* initializeEncryption leaves the stored private key as it was.
C4_NeverOverwrites ==
    (ret.op = "initializeEncryption" /\ ret.privBefore # Null)
        => privSlot = ret.privBefore

KeyNotFound(r) == ~r.ok /\ r.err = "Private key not found" /\ r.text = <<>>

\* C5: from the return of clearKeys until a key is stored again, hasKeys is false
\* and decryptMessage fails on every envelope with 'Private key not found',
\* returning no text.
C5_PostClearLockout ==
    cleared =>
        /\ ~hasKeys
        /\ \A i \in 1..Len(sealed) : KeyNotFound(decryptMessage(sealed[i].env))
        /\ ret.op = "decryptMessage" => KeyNotFound(ret)

C5_Witness ==
    /\ cleared
    /\ pairs # {}
    /\ ret.op = "decryptMessage"
    /\ ret.src = 1

\* The last call was decryptMessage on a sealed envelope with one field changed
\* to another value, with the private key of the sealing pair in the store.
OpenedChanged ==
    /\ ret.op = "decryptMessage"
    /\ ret.field # ""
    /\ ret.key = MatchingPrivateKey(sealed[ret.src].pub)

DecryptionErrors == {"OperationError", "InvalidCharacterError", "DataError"}

\* C6: with one of the three fields of a sealed envelope changed to a different
\* value, decryptMessage fails with a decryption error and returns no text.
C6_TamperDetected ==
    OpenedChanged => ~ret.ok /\ ret.err \in DecryptionErrors /\ ret.text = <<>>

\* C7: decryptMessage of a sealed envelope, with the private key of another pair
\* than the sealing one in the store, fails with a decryption error and returns
\* no text.
C7_WrongKey ==
    (/\ ret.op = "decryptMessage"
     /\ ret.field = ""
     /\ IsJwkString(ret.key)
     /\ ret.key # MatchingPrivateKey(sealed[ret.src].pub))
        => ~ret.ok /\ ret.err = "OperationError" /\ ret.text = <<>>

C7_Witness ==
    /\ ret.op = "decryptMessage"
    /\ ret.field = ""
    /\ IsJwkString(ret.key)
    /\ ret.key # MatchingPrivateKey(sealed[ret.src].pub)

AesKeyOf(i) == gcmLog[sealed[i].gcm][1]

NonceOf(i) == gcmLog[sealed[i].gcm][2]

\* C10: two encryptMessage calls yield envelopes with different iv and different
\* encryptedKey, each call's AES key and nonce are used by no earlier call, and
\* two envelopes of the same plaintext for the same recipient both open, to
\* the same text.
C10_FreshPerCall ==
    \A i \in 1..Len(sealed), j \in 1..Len(sealed) :
        i < j =>
            /\ sealed[i].env.iv # sealed[j].env.iv
            /\ sealed[i].env.encryptedKey # sealed[j].env.encryptedKey
            /\ \A e \in 1..(sealed[j].gcm - 1) :
                   gcmLog[e][1] # AesKeyOf(j) /\ gcmLog[e][2] # NonceOf(j)
            /\ (/\ sealed[i].plain = sealed[j].plain
                /\ sealed[i].pub = sealed[j].pub
                /\ privSlot = MatchingPrivateKey(sealed[i].pub))
                   => /\ decryptMessage(sealed[i].env).ok
                      /\ decryptMessage(sealed[j].env).ok
                      /\ decryptMessage(sealed[i].env).text
                             = decryptMessage(sealed[j].env).text

C10_Witness ==
    /\ Len(sealed) = 2
    /\ sealed[1].pub = sealed[2].pub
    /\ sealed[1].plain = sealed[2].plain
    /\ privSlot = MatchingPrivateKey(sealed[1].pub)
    /\ ret.op = "decryptMessage"
    /\ ret.ok

----------------------------------------------------------------------------
(* ChatService: the table 'messages' of the remote store, sending, loading *)
(* a conversation and the realtime delivery of inserted rows.              *)

LocalUser == "local-user"

Contact == "contact"

\* The public key the contact published; its private key is on the contact's device.
ContactKey == PublicKeyString(0)

\* '[Encrypted message - unable to decrypt]'
Placeholder ==
    <<91, 69, 110, 99, 114, 121, 112, 116, 101, 100, 32, 109, 101, 115,
       115, 97, 103, 101, 32, 45, 32, 117, 110, 97, 98, 108, 101, 32,
       116, 111, 32, 100, 101, 99, 114, 121, 112, 116, 93>>

\* An insert that leaves the iv column out.
NewRowWithoutIv(message, content, encryptedKey, iv) ==
    [id |-> Len(messages) + 1, sender_id |-> message.senderId,
     receiver_id |-> message.receiverId, content |-> content,
     encrypted_key |-> encryptedKey, iv |-> <<>>, is_read |-> message.isRead,
     created_at |-> Len(messages) + 1]

NewRow(message, content, encryptedKey, iv) ==
    [id |-> Len(messages) + 1, sender_id |-> message.senderId,
     receiver_id |-> message.receiverId, content |-> content,
     encrypted_key |-> encryptedKey, iv |-> iv, is_read |-> message.isRead,
     created_at |-> Len(messages) + 1]

SendResult(value, inserted, enc) ==
    [value |-> value, inserted |-> inserted, rng |-> enc.rng,
     gcmLog |-> enc.gcmLog, oaepLog |-> enc.oaepLog]

NotEncrypted == EncResult(TRUE, "", NoEnvelope, rng, gcmLog, oaepLog)

\* A sendMessage that sends the plaintext when encryptMessage throws.
sendMessageFallsBack(message, recipientPublicKey, insertFails) ==
    LET enc == IF ~Falsy(recipientPublicKey)
               THEN encryptMessage(message.content, recipientPublicKey)
               ELSE NotEncrypted
        data == IF ~Falsy(recipientPublicKey) /\ enc.ok
                THEN NewRow(message, enc.env.encryptedContent, enc.env.encryptedKey,
                            enc.env.iv)
                ELSE NewRow(message, message.content, <<>>, <<>>)
    IN  IF insertFails THEN SendResult(<<>>, <<>>, enc)
        ELSE SendResult(<<[id |-> data.id, senderId |-> data.sender_id,
                           receiverId |-> data.receiver_id, content |-> message.content,
                           timestamp |-> data.created_at, isRead |-> data.is_read]>>,
                        <<data>>, enc)

\* ChatService.sendMessage.  value is <<>> for null and <<m>> for the message
\* returned; inserted is <<>> or the row inserted.
sendMessage(message, recipientPublicKey, insertFails) ==
    LET enc == IF ~Falsy(recipientPublicKey)
               THEN encryptMessage(message.content, recipientPublicKey)
               ELSE NotEncrypted
        data == IF ~Falsy(recipientPublicKey)
                THEN NewRow(message, enc.env.encryptedContent, enc.env.encryptedKey,
                            enc.env.iv)
                ELSE NewRow(message, message.content, <<>>, <<>>)
    IN  IF ~enc.ok THEN SendResult(<<>>, <<>>, enc)
        ELSE IF insertFails THEN SendResult(<<>>, <<>>, enc)
        ELSE SendResult(<<[id |-> data.id, senderId |-> data.sender_id,
                           receiverId |-> data.receiver_id, content |-> message.content,
                           timestamp |-> data.created_at, isRead |-> data.is_read]>>,
                        <<data>>, enc)

\* The rows between the two users, in ascending created_at order.
Conversation(userId, contactId) ==
    SelectSeq(messages,
              LAMBDA m : \/ m.sender_id = userId /\ m.receiver_id = contactId
                         \/ m.sender_id = contactId /\ m.receiver_id = userId)

EnvelopeOf(msg) ==
    [encryptedContent |-> msg.content, encryptedKey |-> msg.encrypted_key, iv |-> msg.iv]

\* try { decryptMessage } catch { the placeholder }
Opened(msg) ==
    IF decryptMessage(EnvelopeOf(msg)).ok THEN decryptMessage(EnvelopeOf(msg)).text
    ELSE Placeholder

NeedsDecryptLoadKeyOnly(msg, userId) ==
    ~Falsy(msg.encrypted_key) /\ msg.receiver_id = userId

\* getMessages: msg.encrypted_key && msg.iv && msg.receiver_id === userId
NeedsDecryptLoad(msg, userId) ==
    ~Falsy(msg.encrypted_key) /\ ~Falsy(msg.iv) /\ msg.receiver_id = userId

\* A push guard that looks at the wrapped key alone.
NeedsDecryptPushKeyOnly(msg) == ~Falsy(msg.encrypted_key)

\* the push callback: msg.encrypted_key && msg.iv
NeedsDecryptPush(msg) == ~Falsy(msg.encrypted_key) /\ ~Falsy(msg.iv)

MessageOf(msg, content) ==
    [id |-> msg.id, senderId |-> msg.sender_id, receiverId |-> msg.receiver_id,
     content |-> content, timestamp |-> msg.created_at, isRead |-> msg.is_read]

\* A load in which one rejected decryption rejects the whole Promise.all.
getMessagesUncaught(userId, contactId, queryFails) ==
    LET data == Conversation(userId, contactId)
    IN  IF queryFails THEN <<>>
        ELSE IF \E k \in 1..Len(data) :
                    NeedsDecryptLoad(data[k], userId)
                        /\ ~decryptMessage(EnvelopeOf(data[k])).ok
        THEN <<>>
        ELSE [k \in 1..Len(data) |->
                 MessageOf(data[k], IF NeedsDecryptLoad(data[k], userId)
                                    THEN Opened(data[k]) ELSE data[k].content)]

\* ChatService.getMessages
getMessages(userId, contactId, queryFails) ==
    LET data == Conversation(userId, contactId)
    IN  IF queryFails THEN <<>>
        ELSE [k \in 1..Len(data) |->
                 MessageOf(data[k], IF NeedsDecryptLoad(data[k], userId)
                                    THEN Opened(data[k]) ELSE data[k].content)]

\* The callback of subscribeToMessages on the inserted row msg
onInsert(msg) ==
    MessageOf(msg, IF NeedsDecryptPush(msg) THEN Opened(msg) ELSE msg.content)

\* History: whether decryptMessage was called for a row, and what it did.
DecryptTrace(msg, called) ==
    IF called
    THEN [called |-> TRUE, ok |-> decryptMessage(EnvelopeOf(msg)).ok,
          text |-> decryptMessage(EnvelopeOf(msg)).text]
    ELSE [called |-> FALSE, ok |-> TRUE, text |-> <<>>]

OtherUser(u) == IF u = LocalUser THEN Contact ELSE LocalUser

\* The recipient key a sender passes: a key the recipient published, no key, or
\* a text that is no key.
KeysFor(receiver) ==
    IF receiver = LocalUser
    THEN {PublicKeyString(n) : n \in pairs} \cup {Null, <<65>>}
    ELSE {ContactKey, <<>>}

SendMessage ==
    \E sender \in {LocalUser, Contact}, insertFails \in BOOLEAN :
        \E key \in KeysFor(OtherUser(sender)) :
            LET message == [senderId |-> sender, receiverId |-> OtherUser(sender),
                            content |-> input, isRead |-> FALSE]
                r == sendMessage(message, key, insertFails)
            IN  /\ r.rng <= MaxRand
                /\ Len(messages) < MaxMsgs
                /\ rng' = r.rng
                /\ gcmLog' = r.gcmLog
                /\ oaepLog' = r.oaepLog
                /\ messages' = messages \o r.inserted
                /\ pushQ' = IF OtherUser(sender) = LocalUser THEN pushQ \o r.inserted
                            ELSE pushQ
                /\ ret' = [op |-> "sendMessage", key |-> key, value |-> r.value,
                           inserted |-> r.inserted, plain |-> input]
                /\ UNCHANGED <<privSlot, pubSlot, sealed, idem, cleared, pairs,
                               input, foreign, appVars, concVars>>

ForeignKinds == {"empty", "flipFirst"}

\* Another client of the store, or the store itself, writes a row: a copy of a
\* row with one of the three fields changed.
RemoteInsert ==
    \E k \in 1..Len(messages), f \in {"content", "encrypted_key", "iv"},
       kind \in ForeignKinds :
        LET old == messages[k]
            row == [old EXCEPT ![f] = Tampered(old[f], kind, <<>>),
                               !.id = Len(messages) + 1,
                               !.created_at = Len(messages) + 1]
        IN  /\ foreign < MaxForeign
            /\ Len(messages) < MaxMsgs
            /\ kind = "flipFirst" => old[f] # <<>>
            /\ row[f] # old[f]
            /\ foreign' = foreign + 1
            /\ messages' = Append(messages, row)
            /\ pushQ' = IF row.receiver_id = LocalUser THEN Append(pushQ, row) ELSE pushQ
            /\ ret' = [op |-> "remoteInsert"]
            /\ UNCHANGED <<privSlot, pubSlot, rng, gcmLog, oaepLog, sealed, idem,
                           cleared, pairs, input, appVars, concVars>>

GetMessages ==
    \E queryFails \in BOOLEAN :
        LET rows == Conversation(LocalUser, Contact)
        IN  /\ ret' = [op |-> "getMessages", queryFails |-> queryFails,
                       value |-> getMessages(LocalUser, Contact, queryFails),
                       rows |-> rows,
                       trace |-> [k \in 1..Len(rows) |->
                           DecryptTrace(rows[k], NeedsDecryptLoad(rows[k], LocalUser))]]
            /\ UNCHANGED <<privSlot, pubSlot, rng, gcmLog, oaepLog, sealed, idem,
                           cleared, pairs, input, messages, pushQ, foreign, appVars,
                           concVars>>

\* The realtime channel delivers the oldest undelivered row to the callback.
PushDeliver ==
    /\ pushQ # <<>>
    /\ pushQ' = Tail(pushQ)
    /\ ret' = [op |-> "push", queryFails |-> FALSE,
               value |-> <<onInsert(Head(pushQ))>>,
               rows |-> <<Head(pushQ)>>,
               trace |-> <<DecryptTrace(Head(pushQ), NeedsDecryptPush(Head(pushQ)))>>]
    /\ UNCHANGED <<privSlot, pubSlot, rng, gcmLog, oaepLog, sealed, idem, cleared,
                   pairs, input, messages, foreign, appVars, concVars>>

\* ChatService on the local user's device, with the contact and other clients
\* writing to the same store.
NextChat ==
    \/ KeysInitialized
    \/ KeysCleared
    \/ SendMessage
    \/ RemoteInsert
    \/ GetMessages
    \/ PushDeliver

\* The texts sent in the conversation: 'A' or U+FEFF
ChatTexts == {<<65>>, <<65279>>}

InitChat == Init /\ input \in ChatTexts

SpecChat == InitChat /\ [][NextChat]_vars

----------------------------------------------------------------------------
(* Properties of ChatService.                                              *)

\* C2: a sendMessage call whose recipient public key is absent returns null and
\* inserts no row, so no row holding the plaintext reaches the table.
C2_NoPlaintextFallback ==
    (ret.op = "sendMessage" /\ Falsy(ret.key))
        => ret.value = <<>> /\ ret.inserted = <<>>

LacksEnvelopeField(msg) == Falsy(msg.encrypted_key) \/ Falsy(msg.iv)

\* C8: getMessages and the push callback return a row that lacks encrypted_key
\* or iv with its content as stored, and do not call decryptMessage for it.
C8_LegacyVerbatim ==
    (ret.op \in {"getMessages", "push"} /\ ~ret.queryFails)
        => /\ Len(ret.value) = Len(ret.rows)
           /\ \A k \in 1..Len(ret.rows) :
                  LacksEnvelopeField(ret.rows[k])
                      => /\ ret.value[k].id = ret.rows[k].id
                         /\ ret.value[k].content = ret.rows[k].content
                         /\ ~ret.trace[k].called

C8_Witness ==
    /\ ret.op = "getMessages"
    /\ ~ret.queryFails
    /\ \E k \in 1..Len(ret.rows) :
           /\ ret.rows[k].receiver_id = LocalUser
           /\ ~Falsy(ret.rows[k].encrypted_key)
           /\ Falsy(ret.rows[k].iv)
           /\ ret.value[k].content = ret.rows[k].content
           /\ ret.rows[k].content # <<>>

\* C9: a getMessages call whose query succeeds returns one message per row of
\* the conversation, in the rows' order, whatever decryptions fail: a row whose
\* decryption failed carries the placeholder, a row whose decryption succeeded
\* the decrypted text, and a row not decrypted its stored content.
C9_FailureLocalized ==
    (ret.op = "getMessages" /\ ~ret.queryFails)
        => /\ Len(ret.value) = Len(ret.rows)
           /\ \A k \in 1..Len(ret.rows) :
                  /\ ret.value[k].id = ret.rows[k].id
                  /\ ret.value[k].content =
                         IF ~ret.trace[k].called THEN ret.rows[k].content
                         ELSE IF ret.trace[k].ok THEN ret.trace[k].text
                         ELSE Placeholder

C9_Witness ==
    /\ ret.op = "getMessages"
    /\ ~ret.queryFails
    /\ \E k \in 1..Len(ret.rows), j \in 1..Len(ret.rows) :
           /\ ret.trace[k].called
           /\ ~ret.trace[k].ok
           /\ ret.value[k].content = Placeholder
           /\ ret.trace[j].called
           /\ ret.trace[j].ok
           /\ ret.value[j].content = ret.trace[j].text
           /\ ret.value[j].content # Placeholder

----------------------------------------------------------------------------
(* The base64 codec on its own: a buffer is encoded, the text decoded.     *)

\* 0, 'A', and two bytes whose encodings use the last two characters of the
\* alphabet
Bytes == {0, 65, 251, 255}

RECURSIVE BuffersUpTo(_)
BuffersUpTo(n) ==
    IF n = 0 THEN {<<>>}
    ELSE BuffersUpTo(n - 1)
             \cup {Append(b, x) : b \in {c \in BuffersUpTo(n - 1) : Len(c) = n - 1},
                                  x \in Bytes}

Buffers == BuffersUpTo(MaxBytes)

ArrayBufferToBase64 ==
    /\ ret.op = "none"
    /\ ret' = [op |-> "arrayBufferToBase64", buffer |-> input,
               value |-> arrayBufferToBase64(input)]
    /\ UNCHANGED <<privSlot, pubSlot, rng, gcmLog, oaepLog, sealed, idem, cleared,
                   pairs, input, chatVars, appVars, concVars>>

Base64ToArrayBuffer ==
    /\ ret.op = "arrayBufferToBase64"
    /\ ret' = [op |-> "base64ToArrayBuffer", buffer |-> ret.buffer,
               base64 |-> ret.value, ok |-> base64ToArrayBuffer(ret.value).ok,
               value |-> base64ToArrayBuffer(ret.value).bytes]
    /\ UNCHANGED <<privSlot, pubSlot, rng, gcmLog, oaepLog, sealed, idem, cleared,
                   pairs, input, chatVars, appVars, concVars>>

NextCodec ==
    \/ ArrayBufferToBase64
    \/ Base64ToArrayBuffer

InitCodec == Fresh /\ input \in Buffers

SpecCodec == InitCodec /\ [][NextCodec]_vars

\* C11: base64ToArrayBuffer of arrayBufferToBase64(b) returns, and returns b,
\* for every buffer b, the empty one included.
C11_CodecRoundTrip ==
    /\ base64ToArrayBuffer(arrayBufferToBase64(input)).ok
    /\ base64ToArrayBuffer(arrayBufferToBase64(input)).bytes = input
    /\ ret.op = "base64ToArrayBuffer" => ret.ok /\ ret.value = ret.buffer

C11_Witness ==
    /\ ret.op = "base64ToArrayBuffer"
    /\ Len(ret.buffer) = 2
    /\ ret.buffer[1] = 255
    /\ ret.value = ret.buffer

C11_WitnessEmpty == ret.op = "base64ToArrayBuffer" /\ ret.buffer = <<>>

\* C14: an initializeEncryption call in which generateKeyPair throws throws
\* that error, returns no key, and leaves both SecureStore items as they were.
C14_KeyGenerationFailure ==
    (ret.op = "initializeEncryption" /\ ret.thrower = "generateKeyPair")
        => /\ ~ret.ok
           /\ ret.err = "generateKeyPair"
           /\ ret.value = Null
           /\ privSlot = ret.privBefore
           /\ pubSlot = ret.pubBefore

C14_Witness ==
    /\ ret.op = "initializeEncryption"
    /\ ret.thrower = "generateKeyPair"
    /\ ret.privBefore # Null
    /\ privSlot = ret.privBefore

----------------------------------------------------------------------------
(* More properties of ChatService.                                         *)

HasEnvelopeFields(msg) == ~Falsy(msg.encrypted_key) /\ ~Falsy(msg.iv)

\* C17: getMessages and the push callback call decryptMessage for every row
\* that has both encrypted_key and iv, and the content they return for it is
\* not the stored ciphertext.
C17_EveryEnvelopeOpened ==
    (ret.op \in {"getMessages", "push"} /\ ~ret.queryFails)
        => \A k \in 1..Len(ret.rows) :
               HasEnvelopeFields(ret.rows[k])
                   => /\ ret.trace[k].called
                      /\ ret.value[k].content # ret.rows[k].content

\* The table written by clients that run ChatService, and by nothing else.
NextStore ==
    \/ KeysInitialized
    \/ KeysCleared
    \/ SendMessage
    \/ GetMessages
    \/ PushDeliver

SpecStore == InitChat /\ [][NextStore]_vars

\* One encryptMessage call produced the three fields of the row: its AES-GCM
\* encryption made the content under the iv, and its RSA-OAEP encryption
\* wrapped the AES key of that encryption.
ProducedTogether(msg) ==
    \E e \in 1..Len(gcmLog), w \in 1..Len(oaepLog) :
        /\ msg.content = arrayBufferToBase64(GcmCiphertext(e, gcmLog[e][3]))
        /\ msg.iv = arrayBufferToBase64(gcmLog[e][2])
        /\ msg.encrypted_key = arrayBufferToBase64(OaepCiphertext(w))
        /\ oaepLog[w][2] = gcmLog[e][1]

\* C19: every row of the table holds the content, encrypted_key and iv that
\* one encryptMessage call produced together, or neither encrypted_key nor iv.
C19_EnvelopeAtomic ==
    \A k \in 1..Len(messages) :
        \/ Falsy(messages[k].encrypted_key) /\ Falsy(messages[k].iv)
        \/ ProducedTogether(messages[k])

C19_Witness ==
    /\ Len(messages) = 2
    /\ ProducedTogether(messages[1])
    /\ ProducedTogether(messages[2])
    /\ messages[1].iv # messages[2].iv
    /\ ret.op = "sendMessage"
    /\ ret.inserted = <<messages[2]>>

----------------------------------------------------------------------------
(* The application on one device: AuthService, the onboarding screen and   *)
(* ChatProvider, with one contact whose client writes to the same store.   *)

\* The key variables as an initializeEncryption call with result r leaves
\* them, made in a flow of user u.
KeysAfterInitialize(r, u) ==
    /\ r.rng # rng => Cardinality(pairs) < MaxKeyPairs
    /\ privSlot' = r.priv
    /\ pubSlot' = r.pub
    /\ rng' = r.rng
    /\ pairs' = IF r.rng # rng THEN pairs \cup {r.rng} ELSE pairs
    /\ owner' = IF r.rng # rng THEN owner \cup {<<r.rng, u>>} ELSE owner
    /\ idem' = IF r.ok THEN [set |-> TRUE, pub |-> r.value, priv |-> r.priv] ELSE idem
    /\ cleared' = (cleared /\ r.priv = privSlot /\ r.pub = pubSlot)

\* handleComplete in mode 'signup': AuthService.signup, then setCurrentUserId
\* and the navigation, or the alert.
SignupOf(ids, fails) ==
    \E u \in ids, fail \in fails, createFails \in BOOLEAN :
        LET r == initializeEncryption(fail)
            created == r.ok /\ ~createFails /\ ~users[u].exists
        IN  /\ (hasKeys /\ ~Falsy(pubSlot)) => fail = "none"
            /\ (~r.ok \/ users[u].exists) => ~createFails
            /\ r.rng <= MaxRand
            /\ KeysAfterInitialize(r, u)
            /\ users' = IF created
                         THEN [users EXCEPT ![u] = [exists |-> TRUE, publicKey |-> r.value]]
                         ELSE users
            /\ userIdItem' = IF created THEN u ELSE userIdItem
            /\ currentUserId' = IF created THEN u ELSE currentUserId
            /\ ret' = [op |-> "signup", user |-> u, ok |-> created,
                       thrower |-> IF ~r.ok THEN fail
                                   ELSE IF ~created THEN "createUser" ELSE "none",
                       alerted |-> ~created]
            /\ UNCHANGED <<gcmLog, oaepLog, sealed, input, chatVars, ctx, pending,
                           concVars>>

Signup == SignupOf(Identities, InitFailures)

\* handleComplete in mode 'login': AuthService.login, then setCurrentUserId and
\* the navigation, or the alert.
Login ==
    \E u \in Identities :
        /\ userIdItem' = IF users[u].exists THEN u ELSE userIdItem
        /\ currentUserId' = IF users[u].exists THEN u ELSE currentUserId
        /\ ret' = [op |-> "login", user |-> u, ok |-> users[u].exists,
                   thrower |-> "none", alerted |-> ~users[u].exists]
        /\ UNCHANGED <<privSlot, pubSlot, rng, gcmLog, oaepLog, sealed, idem, cleared,
                       pairs, input, chatVars, users, ctx, pending, owner, concVars>>

\* AuthService.logout
Logout ==
    \E fail \in ClearFailures :
        LET r == clearKeys(fail)
        IN  /\ userIdItem' = NoUser
            /\ privSlot' = r.priv
            /\ pubSlot' = r.pub
            /\ idem' = NoIdem
            /\ cleared' = (r.ok \/ cleared)
            /\ ret' = [op |-> "logout", user |-> userIdItem, ok |-> r.ok,
                       thrower |-> fail, alerted |-> FALSE]
            /\ UNCHANGED <<rng, gcmLog, oaepLog, sealed, pairs, input, chatVars,
                           currentUserId, users, ctx, pending, owner, concVars>>

\* The user initializeData runs for: CURRENT_USER_ID, or else the stored id.
MountedUser == IF currentUserId # NoUser THEN currentUserId ELSE userIdItem

\* An initializeData that sets up keys only for a row without a public key.
CallsInitializeForRowOnly(cu) ==
    /\ cu # NoUser
    /\ users[cu].exists
    /\ Falsy(users[cu].publicKey)

\* initializeData calls initializeEncryption: no key is stored, or the user's
\* row has no public key.
CallsInitialize(cu) ==
    /\ cu # NoUser
    /\ users[cu].exists
    /\ ~hasKeys \/ Falsy(users[cu].publicKey)

\* The mount of ChatProvider, first part of initializeData: the user is
\* fetched and the key pair set up.
InitializeDataKeysMay(fails) ==
    \E fail \in fails :
        LET cu == MountedUser
            r == initializeEncryption(fail)
            known == cu # NoUser /\ users[cu].exists
            calls == CallsInitialize(cu)
            mounted == [Unmounted EXCEPT
                           !.currentUser = IF known THEN cu ELSE NoUser,
                           !.publicKey = IF known THEN users[cu].publicKey ELSE Null]
        IN  /\ (~calls \/ (hasKeys /\ ~Falsy(pubSlot))) => fail = "none"
            /\ calls => r.rng <= MaxRand
            /\ currentUserId' = cu
            /\ pending' = {}
            /\ pushQ' = <<>>
            /\ IF calls
               THEN /\ KeysAfterInitialize(r, cu)
                    /\ users' = IF r.ok THEN [users EXCEPT ![cu].publicKey = r.value]
                                 ELSE users
                    /\ ctx' = IF r.ok
                               THEN [mounted EXCEPT !.publicKey = r.value,
                                                    !.phase = "loading"]
                               ELSE [mounted EXCEPT !.loading = FALSE, !.phase = "done"]
               ELSE /\ UNCHANGED <<privSlot, pubSlot, rng, pairs, owner, idem, cleared,
                                   users>>
                    /\ ctx' = IF cu = NoUser
                               THEN [mounted EXCEPT !.loading = FALSE, !.phase = "done"]
                               ELSE [mounted EXCEPT !.phase = "loading"]
            /\ ret' = [op |-> "initializeData", user |-> cu,
                       ok |-> (calls => r.ok),
                       thrower |-> fail, alerted |-> FALSE]
            /\ UNCHANGED <<gcmLog, oaepLog, sealed, input, messages, foreign,
                           userIdItem, concVars>>

InitializeDataKeys == InitializeDataKeysMay(InitFailures)

\* The public key the contact's row holds when the contacts are fetched: the
\* key the contact published, none, or a text that is no key.
ContactKeys == {ContactKey, Null, <<65>>}

UnreadCount(msgs, contactId) ==
    Cardinality({k \in 1..Len(msgs) : msgs[k].senderId = contactId /\ ~msgs[k].isRead})

\* Second part of initializeData: the contacts and conversations are loaded
\* and the realtime channel subscribed.
InitializeDataLoad ==
    \E key \in ContactKeys :
        LET msgs == getMessages(currentUserId, Contact, FALSE)
        IN  /\ ctx.phase = "loading"
            /\ ctx' = [ctx EXCEPT
                          !.contacts = <<[id |-> Contact, publicKey |-> key]>>,
                          !.conversations =
                              <<[contactId |-> Contact, messages |-> msgs,
                                 unreadCount |-> UnreadCount(msgs, Contact)]>>,
                          !.channel = currentUserId,
                          !.subscription = currentUserId,
                          !.loading = FALSE,
                          !.phase = "done"]
            /\ ret' = [op |-> "initializeDataLoad", user |-> currentUserId, ok |-> TRUE,
                       thrower |-> "none", alerted |-> FALSE]
            /\ UNCHANGED <<privSlot, pubSlot, rng, gcmLog, oaepLog, sealed, idem,
                           cleared, pairs, input, chatVars, userIdItem, currentUserId,
                           users, pending, owner, concVars>>

\* setMessages and setConversations for a message m of the conversation with
\* contactId; a pushed message also counts as unread.
WithMessage(c, m, contactId, pushed) ==
    [c EXCEPT
        !.messages = Append(@, m),
        !.conversations =
            [k \in DOMAIN @ |->
                IF @[k].contactId = contactId
                THEN [@[k] EXCEPT !.messages = Append(@, m),
                                  !.unreadCount = IF pushed THEN @ + 1 ELSE @]
                ELSE @[k]]]

\* contacts.find((c) => c.id === receiverId)?.publicKey
RecipientPublicKey(receiverId) ==
    LET found == SelectSeq(ctx.contacts, LAMBDA c : c.id = receiverId)
    IN  IF found = <<>> THEN Null ELSE found[1].publicKey

\* A guard that only looks at the current user.
CallsSendMessageUnguarded(currentUser, recipientPublicKey) == currentUser # NoUser

\* ChatContext.sendMessage goes on to ChatService.sendMessage: a user is
\* loaded and the recipient has a public key.
CallsSendMessage(currentUser, recipientPublicKey) ==
    currentUser # NoUser /\ ~Falsy(recipientPublicKey)

\* ChatContext.sendMessage of the text under test to the contact
ContextSendMessage ==
    \E insertFails \in BOOLEAN :
        LET messageData == [senderId |-> ctx.currentUser, receiverId |-> Contact,
                            content |-> input, isRead |-> FALSE]
            recipientPublicKey == RecipientPublicKey(messageData.receiverId)
            calls == CallsSendMessage(ctx.currentUser, recipientPublicKey)
            r == sendMessage(messageData, recipientPublicKey, insertFails)
        IN  /\ ctx.phase # "unmounted"
            /\ ~calls => ~insertFails
            /\ calls => r.rng <= MaxRand /\ Len(messages) < MaxMsgs
            /\ IF calls
               THEN /\ rng' = r.rng
                    /\ gcmLog' = r.gcmLog
                    /\ oaepLog' = r.oaepLog
                    /\ messages' = messages \o r.inserted
                    /\ ctx' = IF r.value # <<>>
                               THEN WithMessage(ctx, r.value[1], messageData.receiverId,
                                                FALSE)
                               ELSE ctx
               ELSE UNCHANGED <<rng, gcmLog, oaepLog, messages, ctx>>
            /\ ret' = [op |-> "contextSendMessage", called |-> calls,
                       key |-> recipientPublicKey,
                       value |-> IF calls THEN r.value ELSE <<>>,
                       inserted |-> IF calls THEN r.inserted ELSE <<>>,
                       rowsBefore |-> Len(messages),
                       before |-> [messages |-> ctx.messages,
                                   conversations |-> ctx.conversations]]
            /\ UNCHANGED <<privSlot, pubSlot, sealed, idem, cleared, pairs, input,
                           pushQ, foreign, userIdItem, currentUserId, users, pending,
                           owner, concVars>>

\* The key the contact's client holds for user u: the one in u's row, or none.
PublishedKeys(u) == {users[u].publicKey, Null}

\* The contact's client sends a message to a user of this device.
ContactSendsTo(ids) ==
    \E u \in ids :
        \E key \in PublishedKeys(u) :
            LET message == [senderId |-> Contact, receiverId |-> u,
                            content |-> input, isRead |-> FALSE]
                r == sendMessage(message, key, FALSE)
            IN  /\ users[u].exists
                /\ r.rng <= MaxRand
                /\ Len(messages) < MaxMsgs
                /\ rng' = r.rng
                /\ gcmLog' = r.gcmLog
                /\ oaepLog' = r.oaepLog
                /\ messages' = messages \o r.inserted
                /\ pushQ' = IF ctx.channel = u THEN pushQ \o r.inserted ELSE pushQ
                /\ ret' = [op |-> "contactSends", user |-> u]
                /\ UNCHANGED <<privSlot, pubSlot, sealed, idem, cleared, pairs, input,
                               foreign, appVars, concVars>>

ContactSends == ContactSendsTo(Identities)

\* The realtime channel calls the callback with the oldest undelivered row.
\* A row without encrypted_key or iv is reported at once; for any other the
\* callback awaits decryptMessage.
PushStart ==
    /\ pushQ # <<>>
    /\ pushQ' = Tail(pushQ)
    /\ IF NeedsDecryptPush(Head(pushQ))
       THEN /\ pending' = pending \cup {onInsert(Head(pushQ))}
            /\ ctx' = ctx
       ELSE /\ pending' = pending
            /\ ctx' = WithMessage(ctx, onInsert(Head(pushQ)), Head(pushQ).sender_id, TRUE)
    /\ ret' = [op |-> "pushStart", awaits |-> NeedsDecryptPush(Head(pushQ))]
    /\ UNCHANGED <<privSlot, pubSlot, rng, gcmLog, oaepLog, sealed, idem, cleared,
                   pairs, input, messages, foreign, userIdItem, currentUserId, users,
                   owner, concVars>>

\* A decryptMessage awaited by a push callback settles, and the callback
\* reports its message.
PushComplete ==
    \E m \in pending :
        /\ pending' = pending \ {m}
        /\ ctx' = WithMessage(ctx, m, m.senderId, TRUE)
        /\ ret' = [op |-> "pushComplete", awaits |-> TRUE]
        /\ UNCHANGED <<privSlot, pubSlot, rng, gcmLog, oaepLog, sealed, idem, cleared,
                       pairs, input, chatVars, userIdItem, currentUserId, users,
                       owner, concVars>>

\* One device from its first start, used by one user after another: the
\* identity lifecycle.
NextAuth ==
    \/ Signup
    \/ Login
    \/ Logout
    \/ InitializeDataKeys
    \/ InitializeDataLoad

InitApp == Fresh /\ input = <<65>>

SpecAuth == InitApp /\ [][NextAuth]_vars

\* The first user of the device
FirstUser == {"u1"}

\* The device with one user, a SecureStore and a platform crypto that do not
\* fail: the conversation with the contact.
NextContext ==
    \/ SignupOf(FirstUser, {"none"})
    \/ InitializeDataKeysMay({"none"})
    \/ InitializeDataLoad
    \/ ContextSendMessage
    \/ ContactSendsTo(FirstUser)
    \/ PushStart
    \/ PushComplete

SpecContext == InitApp /\ [][NextContext]_vars

\* The identity lifecycle, and the messages the users of the device send.
NextDevice ==
    \/ Signup
    \/ Login
    \/ Logout
    \/ InitializeDataKeys
    \/ InitializeDataLoad
    \/ ContextSendMessage

SpecDevice == InitApp /\ [][NextDevice]_vars

----------------------------------------------------------------------------
(* Properties of the application.                                          *)

\* The text t occurs in the text s.
Contains(s, t) ==
    \E i \in 0..(Len(s) - Len(t)) : SubSeq(s, i + 1, i + Len(t)) = t

\* The private keys generated so far, as the strings SecureStore holds.
PrivateKeys == {PrivateKeyString(n) : n \in pairs}

NoPrivateKeyIn(s) == \A k \in PrivateKeys : ~Contains(s, k)

\* C12: no row of the tables 'users' and 'messages' holds a private key, as a
\* column or inside one: the public_key of a user row, the content,
\* encrypted_key and iv of a message row.
C12_PrivateKeyStaysOnDevice ==
    /\ \A u \in Identities : NoPrivateKeyIn(users[u].publicKey)
    /\ \A k \in 1..Len(messages) :
           /\ NoPrivateKeyIn(messages[k].content)
           /\ NoPrivateKeyIn(messages[k].encrypted_key)
           /\ NoPrivateKeyIn(messages[k].iv)

C12_Witness ==
    /\ \E u \in Identities : users[u].exists /\ users[u].publicKey = pubSlot
    /\ privSlot \in PrivateKeys
    /\ Len(messages) > 0
    /\ ~Falsy(messages[1].encrypted_key)

SetupFailures == {"generateKeyPair", "storePrivateKey", "storePublicKey"}

HasKeyPair == ~Falsy(privSlot) /\ ~Falsy(pubSlot)

\* C15: when key generation or key storage fails in signup or in
\* initializeData, the user is alerted; a failed signup logs no user in, and a
\* failed initializeData does not leave a loaded session of a user without a
\* key pair.
C15_SetupFailureSurfaced ==
    (ret.op \in {"signup", "initializeData"} /\ ret.thrower \in SetupFailures)
        => /\ ret.alerted
           /\ ret.op = "signup" => ~ret.ok
           /\ ret.op = "initializeData"
                  => ~(ctx.currentUser # NoUser /\ ~ctx.loading /\ ~HasKeyPair)

\* C16: while a user is logged in, a stored private key is one generated in a
\* flow of that user.
C16_KeysOfTheLoggedInUser ==
    (userIdItem # NoUser /\ IsJwkString(privSlot))
        => <<JwkModulus(privSlot), userIdItem>> \in owner

\* The last ChatContext.sendMessage left the table and the two lists of the
\* provider as they were.
NothingSent ==
    /\ ret.value = <<>>
    /\ ret.inserted = <<>>
    /\ Len(messages) = ret.rowsBefore
    /\ ctx.messages = ret.before.messages
    /\ ctx.conversations = ret.before.conversations

C18_NoKeyNoSend ==
    (ret.op = "contextSendMessage" /\ Falsy(ret.key))
        => ~ret.called /\ NothingSent

C18_Witness ==
    /\ ret.op = "contextSendMessage"
    /\ ctx.currentUser # NoUser
    /\ ctx.contacts # <<>>
    /\ Falsy(ctx.contacts[1].publicKey)
    /\ Falsy(ret.key)

\* The messages of a list that the push callback reported, in the list's order.
Pushed(msgs, contactId) == SelectSeq(msgs, LAMBDA m : m.senderId = contactId)

NonDecreasing(msgs) ==
    \A i \in 1..Len(msgs), j \in 1..Len(msgs) :
        i < j => msgs[i].timestamp <= msgs[j].timestamp

\* C20: in every conversation of the ChatProvider, the messages received from
\* the contact are in non-decreasing timestamp order, in whatever order the
\* decryptions of the push callbacks complete.
C20_PushOrder ==
    \A k \in 1..Len(ctx.conversations) :
        NonDecreasing(Pushed(ctx.conversations[k].messages,
                             ctx.conversations[k].contactId))

----------------------------------------------------------------------------
(* Frame of the cipher calls.                                              *)

\* C22: a step of encryptMessage or of decryptMessage, returning or throwing,
\* leaves the two SecureStore items as they were.
C22_CipherLeavesKeys ==
    [][(EncryptMessage \/ DecryptMessage)
           => (privSlot' = privSlot /\ pubSlot' = pubSlot)]_vars

C22_Witness ==
    /\ ret.op \in {"encryptMessage", "decryptMessage"}
    /\ ~ret.ok
    /\ privSlot # Null
    /\ pubSlot # Null
    /\ Len(sealed) > 0

----------------------------------------------------------------------------
(* The load path against the push path.                                    *)

\* C29: for every stored record addressed to the local user, under the key
\* items as they are, getMessages and the subscribeToMessages callback give
\* the same content: the plaintext, the stored content of a record that lacks
\* an envelope field, or the placeholder.
C29_LoadEqualsPush ==
    LET data == Conversation(LocalUser, Contact)
        loaded == getMessages(LocalUser, Contact, FALSE)
    IN  \A k \in 1..Len(data) :
            data[k].receiver_id = LocalUser
                => /\ loaded[k].content = onInsert(data[k]).content
                   /\ loaded[k].id = onInsert(data[k]).id

\* Two records for the local user, one lacking an envelope field and one
\* with both, the second opened to the placeholder on both paths.
C29_Witness ==
    LET data == Conversation(LocalUser, Contact)
    IN  /\ Len(data) = 2
        /\ \E j, k \in 1..2 :
               /\ data[j].receiver_id = LocalUser /\ LacksEnvelopeField(data[j])
               /\ ~Falsy(data[j].encrypted_key)
               /\ data[k].receiver_id = LocalUser /\ HasEnvelopeFields(data[k])
               /\ onInsert(data[k]).content = Placeholder

----------------------------------------------------------------------------
(* The parallel decryptions of one load.                                   *)

\* The orders in which n promises started together can settle.
SettleOrders(n) ==
    {o \in [1..n -> 1..n] : \A i, j \in 1..n : i # j => o[i] # o[j]}

\* A collection that takes each value as its promise settles.
PromiseAllAsSettled(values, order) ==
    [k \in 1..Len(values) |-> values[order[k]]]

RECURSIVE ResolveInto(_, _, _, _)
ResolveInto(values, order, k, acc) ==
    IF k > Len(order) THEN acc
    ELSE ResolveInto(values, order, k + 1,
                     [acc EXCEPT ![order[k]] = values[order[k]]])

\* Promise.all: the promise of index i, whenever it settles, fills slot i.
PromiseAll(values, order) ==
    ResolveInto(values, order, 1, [k \in 1..Len(values) |-> <<>>])

\* getMessages with its per-record promises settling in the given order
getMessagesInParallel(userId, contactId, order) ==
    PromiseAll(getMessages(userId, contactId, FALSE), order)

LoadConversation ==
    LET rows == Conversation(LocalUser, Contact)
    IN  \E order \in SettleOrders(Len(rows)) :
            /\ ret' = [op |-> "getMessagesInParallel", queryFails |-> FALSE,
                       value |-> getMessagesInParallel(LocalUser, Contact, order),
                       rows |-> rows, order |-> order]
            /\ UNCHANGED <<privSlot, pubSlot, rng, gcmLog, oaepLog, sealed, idem,
                           cleared, pairs, input, messages, pushQ, foreign, appVars,
                           concVars>>

NextLoad ==
    \/ KeysInitialized
    \/ KeysCleared
    \/ SendMessage
    \/ RemoteInsert
    \/ LoadConversation

SpecLoad == InitChat /\ [][NextLoad]_vars

\* C21: getMessages returns one message per stored record of the
\* conversation, in the store's ascending created_at order, in whichever
\* order the parallel decryptions of the records settle.
C21_LoadOrder ==
    ret.op = "getMessagesInParallel"
        => /\ Len(ret.value) = Len(ret.rows)
           /\ \A k \in 1..Len(ret.rows) :
                  /\ ret.value[k].id = ret.rows[k].id
                  /\ ret.value[k].timestamp = ret.rows[k].created_at
           /\ \A j, k \in 1..Len(ret.value) :
                  j < k => ret.value[j].timestamp <= ret.value[k].timestamp

\* A load of two records, one of them decrypted, where the later record's
\* promise settled first.
C21_Witness ==
    /\ ret.op = "getMessagesInParallel"
    /\ Len(ret.rows) = 2
    /\ ret.order = <<2, 1>>
    /\ \E k \in 1..2 : NeedsDecryptLoad(ret.rows[k], LocalUser)

----------------------------------------------------------------------------
(* A signup that fails.                                                    *)

\* C27: a signup that throws, whichever of its calls threw, leaves the
\* user-id item and the two key items of the device as they were before it.
C27_FailedSignupLeavesDevice ==
    [][(Signup /\ ~ret'.ok)
           => (userIdItem' = userIdItem /\ privSlot' = privSlot /\ pubSlot' = pubSlot)]_vars

----------------------------------------------------------------------------
(* The ChatProvider from mount to unmount, initializeData step by step.    *)

\* initializeData, the contacts and the conversations: getContacts, then
\* getMessages for each contact.
InitializeDataFetch ==
    \E key \in ContactKeys :
        LET msgs == getMessages(currentUserId, Contact, FALSE)
        IN  /\ ctx.phase = "loading"
            /\ ctx' = [ctx EXCEPT
                          !.contacts = <<[id |-> Contact, publicKey |-> key]>>,
                          !.conversations =
                              <<[contactId |-> Contact, messages |-> msgs,
                                 unreadCount |-> UnreadCount(msgs, Contact)]>>,
                          !.phase = "fetched"]
            /\ ret' = [op |-> "initializeDataFetch", user |-> currentUserId, ok |-> TRUE,
                       thrower |-> "none", alerted |-> FALSE]
            /\ UNCHANGED <<privSlot, pubSlot, rng, gcmLog, oaepLog, sealed, idem,
                           cleared, pairs, input, chatVars, userIdItem, currentUserId,
                           users, pending, owner, concVars>>

\* initializeData, the subscription: subscribeToMessages, setMessageChannel
\* and setLoading(false).
InitializeDataSubscribe ==
    /\ ctx.phase = "fetched"
    /\ ctx' = [ctx EXCEPT !.channel = currentUserId,
                          !.subscription = currentUserId,
                          !.loading = FALSE,
                          !.phase = "done"]
    /\ ret' = [op |-> "initializeDataSubscribe", user |-> currentUserId, ok |-> TRUE,
               thrower |-> "none", alerted |-> FALSE]
    /\ UNCHANGED <<privSlot, pubSlot, rng, gcmLog, oaepLog, sealed, idem, cleared,
                   pairs, input, chatVars, userIdItem, currentUserId, users, pending,
                   owner, concVars>>

\* ChatService.markMessagesAsRead: the update of the rows the contact sent to
\* the user that are not read; an error of the update is logged.
markMessagesAsRead(userId, contactId, updateFails) ==
    IF updateFails THEN messages
    ELSE [k \in 1..Len(messages) |->
             IF /\ messages[k].sender_id = contactId
                /\ messages[k].receiver_id = userId
                /\ ~messages[k].is_read
             THEN [messages[k] EXCEPT !.is_read = TRUE]
             ELSE messages[k]]

\* ChatContext.markMessagesAsRead for the contact
ContextMarkMessagesAsRead ==
    \E updateFails \in BOOLEAN :
        /\ ctx.phase # "unmounted"
        /\ ctx.currentUser # NoUser
        /\ messages' = markMessagesAsRead(ctx.currentUser, Contact, updateFails)
        /\ ctx' = [ctx EXCEPT
                      !.messages =
                          [k \in DOMAIN @ |->
                              IF @[k].senderId = Contact /\ @[k].receiverId = ctx.currentUser
                              THEN [@[k] EXCEPT !.isRead = TRUE]
                              ELSE @[k]],
                      !.conversations =
                          [k \in DOMAIN @ |->
                              IF @[k].contactId = Contact
                              THEN [@[k] EXCEPT !.unreadCount = 0]
                              ELSE @[k]]]
        /\ ret' = [op |-> "markMessagesAsRead", user |-> ctx.currentUser,
                   ok |-> ~updateFails]
        /\ UNCHANGED <<privSlot, pubSlot, rng, gcmLog, oaepLog, sealed, idem, cleared,
                       pairs, input, pushQ, foreign, userIdItem, currentUserId, users,
                       pending, owner, concVars>>

\* The messageChannel the cleanup of the mount effect reads: the effect has
\* no dependencies, so its closure holds the state of the first render.
CleanupChannel == Unmounted.channel

\* The unmount of a ChatProvider whose initializeData has finished: the
\* cleanup of the mount effect. Callbacks still to come set no state.
Unmount ==
    LET removed == IF CleanupChannel # NoUser THEN CleanupChannel ELSE NoUser
    IN  /\ ctx.phase = "done"
        /\ ctx' = [Unmounted EXCEPT
                      !.subscription = IF removed = ctx.subscription THEN NoUser
                                       ELSE ctx.subscription]
        /\ pushQ' = <<>>
        /\ pending' = {}
        /\ ret' = [op |-> "unmount", created |-> ctx.subscription, removed |-> removed]
        /\ UNCHANGED <<privSlot, pubSlot, rng, gcmLog, oaepLog, sealed, idem, cleared,
                       pairs, input, messages, foreign, userIdItem, currentUserId,
                       users, owner, concVars>>

NextProvider ==
    \/ SignupOf(FirstUser, {"none"})
    \/ InitializeDataKeysMay({"none"})
    \/ InitializeDataFetch
    \/ InitializeDataSubscribe
    \/ ContactSendsTo(FirstUser)
    \/ PushStart
    \/ PushComplete
    \/ ContextMarkMessagesAsRead
    \/ Unmount

SpecProvider == InitApp /\ [][NextProvider]_vars

\* C30: after an unmount of a ChatProvider whose initializeData created the
\* message subscription, unsubscribeFromMessages has been called with the
\* created channel and the subscription is gone.
C30_UnmountUnsubscribes ==
    (ret.op = "unmount" /\ ret.created # NoUser)
        => (ret.removed = ret.created /\ ctx.subscription = NoUser)

\* C28: the unreadCount of every conversation is the number of messages in
\* the conversation's list that the contact sent and that are not read.
C28_UnreadCount ==
    \A k \in DOMAIN ctx.conversations :
        ctx.conversations[k].unreadCount
            = UnreadCount(ctx.conversations[k].messages, ctx.conversations[k].contactId)

\* C26: once initializeData has finished and every delivery has been
\* reported, each row the contact inserted for the user is in the contact's
\* conversation list exactly once.
C26_ExactlyOnce ==
    (ctx.phase = "done" /\ ctx.channel # NoUser /\ pushQ = <<>> /\ pending = {})
        => \A r \in 1..Len(messages) :
               (messages[r].sender_id = Contact /\ messages[r].receiver_id = ctx.currentUser)
                   => \A k \in DOMAIN ctx.conversations :
                          ctx.conversations[k].contactId = Contact
                              => Cardinality({j \in DOMAIN ctx.conversations[k].messages :
                                     ctx.conversations[k].messages[j].id = messages[r].id}) = 1

----------------------------------------------------------------------------
(* A user who comes back to a device whose key store is empty.             *)

\* One user of the device signs up, logs out and in; the contact writes to
\* the user with the key the user's row holds.
NextRelogin ==
    \/ SignupOf(FirstUser, InitFailures)
    \/ Login
    \/ Logout
    \/ InitializeDataKeys
    \/ InitializeDataLoad
    \/ ContactSendsTo(FirstUser)
    \/ PushStart
    \/ PushComplete

SpecRelogin == InitApp /\ [][NextRelogin]_vars

\* The moduli of the public keys the wrapped key of a row was encrypted to.
WrappedFor(msg) ==
    {oaepLog[e][1] : e \in {w \in 1..Len(oaepLog) :
                                arrayBufferToBase64(OaepCiphertext(w)) = msg.encrypted_key}}

\* initializeData of a known user, started with both key items empty and
\* finished without an error, has generated a pair, stored it and put its
\* public key in the user's row in place of the one the row held.
ReloginRegenerates ==
    (/\ InitializeDataKeys
     /\ privSlot = Null /\ pubSlot = Null
     /\ MountedUser # NoUser
     /\ users[MountedUser].exists
     /\ ret'.ok)
        => /\ rng' \notin pairs
           /\ pairs' = pairs \cup {rng'}
           /\ privSlot' = PrivateKeyString(rng')
           /\ pubSlot' = PublicKeyString(rng')
           /\ users'[MountedUser].publicKey = PublicKeyString(rng')
           /\ users'[MountedUser].publicKey # users[MountedUser].publicKey

\* A row for the logged-in user whose wrapped key was made for a key that is
\* no longer the published one opens to the placeholder on both paths.
SupersededStayClosed ==
    \A k \in 1..Len(messages) :
        (/\ userIdItem # NoUser
         /\ messages[k].receiver_id = userIdItem
         /\ HasEnvelopeFields(messages[k])
         /\ IsJwkString(users[userIdItem].publicKey)
         /\ JwkModulus(users[userIdItem].publicKey) \notin WrappedFor(messages[k]))
            => /\ onInsert(messages[k]).content = Placeholder
               /\ Opened(messages[k]) = Placeholder

\* C23: after a login on a device whose key store is empty, initializeData
\* generates a new key pair and replaces the user's published public key with
\* the new one; and records sealed to a key published before open to the
\* placeholder on the device, never to the plaintext.
C23_ReloginLosesHistory == [][ReloginRegenerates]_vars /\ []SupersededStayClosed

\* initializeData has just replaced the published key of a user who logged
\* in on empty key items, and a record sealed to the earlier key is stored.
C23_Witness ==
    /\ ret.op = "initializeData"
    /\ ret.ok
    /\ userIdItem # NoUser
    /\ userIdItem = ret.user
    /\ Cardinality(pairs) = 2
    /\ IsJwkString(privSlot)
    /\ users[userIdItem].publicKey = pubSlot
    /\ \E k \in 1..Len(messages) :
           /\ messages[k].receiver_id = userIdItem
           /\ HasEnvelopeFields(messages[k])
           /\ WrappedFor(messages[k]) # {}
           /\ JwkModulus(privSlot) \notin WrappedFor(messages[k])
           /\ Opened(messages[k]) = Placeholder

----------------------------------------------------------------------------
(* The contact's client: its own ChatProvider, with its cached contacts.   *)

\* initializeData in the contact's client: getContacts reads the users' rows
\* and setContacts keeps them with the public keys they hold at that time.
ContactLoadsContacts ==
    /\ peerKeys' = [u \in Identities |->
                        IF users[u].exists THEN users[u].publicKey ELSE Null]
    /\ peerKeys' # peerKeys
    /\ ret' = [op |-> "contactLoadsContacts", ok |-> TRUE]
    /\ UNCHANGED <<privSlot, pubSlot, rng, gcmLog, oaepLog, sealed, idem, cleared,
                   pairs, input, chatVars, appVars, inflight>>

\* ChatContext.sendMessage in the contact's client, to a user of this device:
\* the recipient key is the one in the contact's cached contact list.
ContactContextSendsTo(ids) ==
    \E u \in ids :
        LET message == [senderId |-> Contact, receiverId |-> u,
                        content |-> input, isRead |-> FALSE]
            recipientPublicKey == peerKeys[u]
            r == sendMessage(message, recipientPublicKey, FALSE)
        IN  /\ users[u].exists
            /\ CallsSendMessage(Contact, recipientPublicKey)
            /\ r.rng <= MaxRand
            /\ Len(messages) < MaxMsgs
            /\ rng' = r.rng
            /\ gcmLog' = r.gcmLog
            /\ oaepLog' = r.oaepLog
            /\ messages' = messages \o r.inserted
            /\ pushQ' = IF ctx.channel = u THEN pushQ \o r.inserted ELSE pushQ
            /\ ret' = [op |-> "contactContextSends", user |-> u,
                       key |-> recipientPublicKey]
            /\ UNCHANGED <<privSlot, pubSlot, sealed, idem, cleared, pairs, input,
                           foreign, appVars, concVars>>

NextPeers ==
    \/ SignupOf(FirstUser, {"none"})
    \/ Login
    \/ Logout
    \/ InitializeDataKeysMay({"none"})
    \/ InitializeDataLoad
    \/ ContactLoadsContacts
    \/ ContactContextSendsTo(FirstUser)
    \/ PushStart
    \/ PushComplete

SpecPeers == InitApp /\ [][NextPeers]_vars

\* The user u is logged in on the device and the device holds the private
\* half of the key u's row publishes.
LoggedInWithKeys(u) ==
    /\ u # NoUser
    /\ userIdItem = u
    /\ IsJwkString(privSlot)
    /\ users[u].publicKey = PublicKeyString(JwkModulus(privSlot))

DeliveredOpen ==
    /\ (/\ PushStart
        /\ Head(pushQ).sender_id = Contact
        /\ LoggedInWithKeys(Head(pushQ).receiver_id))
           => onInsert(Head(pushQ)).content = input
    /\ (InitializeDataLoad /\ LoggedInWithKeys(currentUserId))
           => \A k \in DOMAIN getMessages(currentUserId, Contact, FALSE) :
                  getMessages(currentUserId, Contact, FALSE)[k].senderId = Contact
                      => getMessages(currentUserId, Contact, FALSE)[k].content = input

\* C25: a message the contact's ChatContext.sendMessage sent with the user's
\* cached public key, when it is delivered (pushed or loaded) to the device
\* on which the user is logged in and holds the keys of the published pair,
\* is given with the text that was sent and not with the placeholder.
C25_DeliveredReadable == [][DeliveredOpen]_vars

----------------------------------------------------------------------------
(* initializeEncryption and clearKeys step by step: every await of a call  *)
(* is a point where another call in flight can run.                        *)

CallIds == 1..MaxCalls

Call(id, op, pc, pair) == [id |-> id, op |-> op, pc |-> pc, pair |-> pair]

NoPair == [publicKey |-> Null, privateKey |-> Null]

\* The call c moves on to position pc holding pair.
Moved(c, pc, pair) == (inflight \ {c}) \cup {Call(c.id, c.op, pc, pair)}

\* A caller starts initializeEncryption or clearKeys.
CallBegins ==
    \E id \in CallIds, op \in {"initializeEncryption", "clearKeys"} :
        /\ \A c \in inflight : c.id # id
        /\ inflight' = inflight \cup {Call(id, op, "start", NoPair)}
        /\ UNCHANGED <<encVars, chatVars, appVars, peerKeys>>

\* await this.hasKeys()
InitChecksKeys ==
    \E c \in inflight :
        /\ c.op = "initializeEncryption" /\ c.pc = "start"
        /\ inflight' = Moved(c, IF hasKeys THEN "getPublicKey" ELSE "generateKeyPair",
                             NoPair)
        /\ UNCHANGED <<encVars, chatVars, appVars, peerKeys>>

\* await this.getPublicKey(), and the return of the existing key
InitReadsPublicKey ==
    \E c \in inflight :
        /\ c.op = "initializeEncryption" /\ c.pc = "getPublicKey"
        /\ IF ~Falsy(pubSlot)
           THEN /\ inflight' = inflight \ {c}
                /\ ret' = [op |-> "initializeEncryptionReturns", ok |-> TRUE,
                           value |-> pubSlot]
           ELSE /\ inflight' = Moved(c, "generateKeyPair", NoPair)
                /\ ret' = ret
        /\ UNCHANGED <<privSlot, pubSlot, rng, gcmLog, oaepLog, sealed, idem, cleared,
                       pairs, input, chatVars, appVars, peerKeys>>

\* await this.generateKeyPair()
InitGeneratesPair ==
    \E c \in inflight :
        /\ c.op = "initializeEncryption" /\ c.pc = "generateKeyPair"
        /\ rng < MaxRand
        /\ Cardinality(pairs) < MaxKeyPairs
        /\ rng' = rng + 1
        /\ pairs' = pairs \cup {rng + 1}
        /\ inflight' = Moved(c, "storePrivateKey", generateKeyPair)
        /\ UNCHANGED <<privSlot, pubSlot, gcmLog, oaepLog, sealed, ret, idem, cleared,
                       input, chatVars, appVars, peerKeys>>

\* await this.storePrivateKey(privateKey)
InitStoresPrivateKey ==
    \E c \in inflight :
        /\ c.op = "initializeEncryption" /\ c.pc = "storePrivateKey"
        /\ privSlot' = c.pair.privateKey
        /\ cleared' = FALSE
        /\ inflight' = Moved(c, "storePublicKey", c.pair)
        /\ UNCHANGED <<pubSlot, rng, gcmLog, oaepLog, sealed, ret, idem, pairs, input,
                       chatVars, appVars, peerKeys>>

\* await this.storePublicKey(publicKey), and the return of the new key
InitStoresPublicKey ==
    \E c \in inflight :
        /\ c.op = "initializeEncryption" /\ c.pc = "storePublicKey"
        /\ pubSlot' = c.pair.publicKey
        /\ cleared' = FALSE
        /\ inflight' = inflight \ {c}
        /\ ret' = [op |-> "initializeEncryptionReturns", ok |-> TRUE,
                   value |-> c.pair.publicKey]
        /\ UNCHANGED <<privSlot, rng, gcmLog, oaepLog, sealed, idem, pairs, input,
                       chatVars, appVars, peerKeys>>

\* await SecureStore.deleteItemAsync(PRIVATE_KEY_STORAGE_KEY)
ClearDeletesPrivateKey ==
    \E c \in inflight :
        /\ c.op = "clearKeys" /\ c.pc = "start"
        /\ privSlot' = Null
        /\ inflight' = Moved(c, "deletePublicKey", NoPair)
        /\ UNCHANGED <<pubSlot, rng, gcmLog, oaepLog, sealed, ret, idem, cleared,
                       pairs, input, chatVars, appVars, peerKeys>>

\* await SecureStore.deleteItemAsync(PUBLIC_KEY_STORAGE_KEY), and the return
ClearDeletesPublicKey ==
    \E c \in inflight :
        /\ c.op = "clearKeys" /\ c.pc = "deletePublicKey"
        /\ pubSlot' = Null
        /\ idem' = NoIdem
        /\ inflight' = inflight \ {c}
        /\ ret' = [op |-> "clearKeysReturns", ok |-> TRUE]
        /\ UNCHANGED <<privSlot, rng, gcmLog, oaepLog, sealed, cleared, pairs, input,
                       chatVars, appVars, peerKeys>>

NextRace ==
    \/ CallBegins
    \/ InitChecksKeys
    \/ InitReadsPublicKey
    \/ InitGeneratesPair
    \/ InitStoresPrivateKey
    \/ InitStoresPublicKey
    \/ ClearDeletesPrivateKey
    \/ ClearDeletesPublicKey

SpecRace == InitApp /\ [][NextRace]_vars

\* C24: whenever both key items are populated they are the private and the
\* public half of one generated pair, however the storage steps of the
\* initializeEncryption and clearKeys calls in flight interleave.
C24_SlotsOfOnePair ==
    (privSlot # Null /\ pubSlot # Null)
        => \E n \in pairs : /\ privSlot = PrivateKeyString(n)
                            /\ pubSlot = PublicKeyString(n)

====
